---- MODULE Spec2Model ----
(***************************************************************************)
(* Model of depx's dependency graph engine (src/src/graph/mod.rs):         *)
(* DependencyGraph::new, analyze_usage, get_transitive_dependencies,       *)
(* explain_package and find_dependency_chains, over the Package data model *)
(* of src/src/types.rs.                                                    *)
(*                                                                         *)
(* One run of the program parses a lockfile into a name -> Package map,     *)
(* builds the graph once and asks one query (main.rs run_analyze, run_why). *)
(* A node of the petgraph DiGraph is identified with the map key it wraps: *)
(* node_indices is a bijection between keys and NodeIndex values.          *)
(* The iteration order of a HashMap or HashSet is unspecified: every loop   *)
(* over one takes its order as a nondeterministic choice.                   *)
(***************************************************************************)
EXTENDS Integers, Sequences, FiniteSets, TLC

VARIABLES lockfile, packages, graph, phase, call, result

vars == <<lockfile, packages, graph, phase, call, result>>

----------------------------------------------------------------------------
(* Bounds of the model *)

\* dependency entries in the whole lockfile of a small project
MaxEdges == 2

\* the same for the projects whose usage is analysed
MaxUsageEdges == 1

\* largest root set handed to the closure and to analyze_usage
MaxRoots == 2

\* [[package]] tables of a Cargo.lock whose versions are free
MaxCrates == 4

\* dependents in all of a map handed to calculate_transitive_dependents
MaxDependents == 3

----------------------------------------------------------------------------
(* Names *)

\* the package names of the model, in ascending byte order (String::cmp)
NameOrder ==
    <<"@types/node", "app", "body-parser", "eslint", "express", "fastify", "koa",
      "left-pad", "rand", "raw-body", "serde", "syn">>

Names == {NameOrder[i] : i \in 1..Len(NameOrder)}

\* a name no package map of the model holds
Absent == "left-pad"

\* the keys of the small package maps: a name off the allowlist, one on
\* the exact list and one with a listed prefix
Keys == {"express", "eslint", "@types/node"}

NameRank(n) == CHOOSE i \in 1..Len(NameOrder) : NameOrder[i] = n

\* a.name.cmp(&b.name) == Less
NameLess(a, b) == NameRank(a) < NameRank(b)

\* the leading segment of a name: what str::starts_with is asked about
LeadingSegment(n) ==
    CASE n = "@types/node" -> "@types/"
      [] OTHER -> ""

StartsWith(n, prefix) == LeadingSegment(n) = prefix

EXPECTED_UNUSED_EXACT ==
    { "typescript", "ts-node", "tsx", "ts-jest",
      "vite", "webpack", "webpack-cli", "webpack-dev-server", "rollup",
      "esbuild", "parcel", "turbo", "nx", "tsup", "unbuild", "pkgroll",
      "microbundle", "tsdx", "preconstruct", "bunchee",
      "eslint", "prettier", "stylelint", "biome", "oxlint", "dprint", "xo",
      "standard",
      "jest", "vitest", "mocha", "ava", "tap", "c8", "nyc", "playwright",
      "cypress", "@playwright/test", "uvu",
      "nodemon", "ts-node-dev", "tsnd", "concurrently", "npm-run-all",
      "npm-run-all2", "cross-env", "wait-on",
      "rimraf", "del-cli", "copyfiles", "cpy-cli", "mkdirp", "shx",
      "husky", "lint-staged", "commitlint", "simple-git-hooks", "lefthook",
      "semantic-release", "release-it", "standard-version", "bumpp",
      "changelogithub", "changelogen", "np", "lerna", "changeset",
      "patch-package", "pnpm-patch",
      "typedoc", "jsdoc", "documentation", "api-extractor",
      "tsc", "attw", "publint", "arethetypeswrong", "knip", "depcheck" }

EXPECTED_UNUSED_PREFIXES ==
    { "@typescript-eslint/", "@eslint/", "eslint-plugin-", "eslint-config-",
      "@vitejs/", "@rollup/", "@babel/", "babel-", "@swc/", "@jest/",
      "@testing-library/", "@vitest/", "prettier-plugin-" }

is_expected_unused(name) ==
    \/ StartsWith(name, "@types/")
    \/ name \in EXPECTED_UNUSED_EXACT
    \/ \E prefix \in EXPECTED_UNUSED_PREFIXES : StartsWith(name, prefix)

----------------------------------------------------------------------------
(* Helpers on sets and sequences *)

\* every order in which a loop may visit the members of S
Orders(S) ==
    {f \in [1..Cardinality(S) -> S] : \A i, j \in 1..Cardinality(S) : f[i] = f[j] => i = j}

SeqsUpTo(S, n) == UNION {[1..k -> S] : k \in 0..n}

Range(s) == {s[i] : i \in 1..Len(s)}

Contains(s, x) == \E i \in 1..Len(s) : s[i] = x

Reverse(s) == [i \in 1..Len(s) |-> s[Len(s) + 1 - i]]

----------------------------------------------------------------------------
(* DependencyGraph::new *)

\* the test for the far end left out: an edge for every dependency listed
PkgEdges_keeps_dangling(pkgs, name) ==
    [i \in 1..Len(pkgs[name].dependencies) |-> <<name, pkgs[name].dependencies[i]>>]

\* the edges one package contributes: one per dependency that is a node
PkgEdges(pkgs, name) ==
    LET kept == SelectSeq(pkgs[name].dependencies, LAMBDA d : d \in DOMAIN pkgs)
    IN  [i \in 1..Len(kept) |-> <<name, kept[i]>>]

RECURSIVE AddEdges(_, _, _)
AddEdges(pkgs, ord, i) ==
    IF i > Len(ord) THEN <<>>
    ELSE PkgEdges(pkgs, ord[i]) \o AddEdges(pkgs, ord, i + 1)

\* The edge list of a node as petgraph hands it out: the far ends of the
\* edges that leave (Outgoing) or enter (Incoming) n, from the edge added
\* last to the edge added first
EdgeList(edges, n, dir) ==
    LET here  == IF dir = "Outgoing" THEN 1 ELSE 2
        there == IF dir = "Outgoing" THEN 2 ELSE 1
        es    == SelectSeq(edges, LAMBDA e : e[here] = n)
    IN  Reverse([i \in 1..Len(es) |-> es[i][there]])

\* ord: the order in which `for (name, pkg) in packages` visits the map.
\* The graph is kept as its nodes and the two edge lists of every node.
DependencyGraph_new(pkgs, ord) ==
    LET edges == AddEdges(pkgs, ord, 1)
    IN  [nodes    |-> DOMAIN pkgs,
         outgoing |-> [n \in DOMAIN pkgs |-> EdgeList(edges, n, "Outgoing")],
         incoming |-> [n \in DOMAIN pkgs |-> EdgeList(edges, n, "Incoming")]]

\* the direction of the walk ignored: always the dependants
neighbors_directed_incoming_only(g, n, dir) == g.incoming[n]

neighbors_directed(g, n, dir) ==
    IF dir = "Outgoing" THEN g.outgoing[n] ELSE g.incoming[n]

----------------------------------------------------------------------------
(* get_transitive_dependencies *)

\* the while loop: pushes records every queue.push_back of the traversal
RECURSIVE BfsLoop(_, _, _, _)
BfsLoop(g, queue, visited, pushes) ==
    IF queue = <<>> THEN [visited |-> visited, pushes |-> pushes]
    ELSE LET idx == Head(queue)
         IN  IF idx \in visited
             THEN BfsLoop(g, Tail(queue), visited, pushes)
             ELSE LET nbrs == neighbors_directed(g, idx, "Outgoing")
                  IN  BfsLoop(g, Tail(queue) \o nbrs, visited \cup {idx},
                              pushes \o nbrs)

\* the queue seeded with the first root found only
TransitiveRun_seeds_first_root(g, roots) ==
    LET seed  == SelectSeq(roots, LAMBDA n : n \in g.nodes)
        first == SubSeq(seed, 1, IF seed = <<>> THEN 0 ELSE 1)
    IN  BfsLoop(g, first, {}, first)

\* roots: the root set in the order `for name in roots` visits it
TransitiveRun(g, roots) ==
    LET seed == SelectSeq(roots, LAMBDA n : n \in g.nodes)
    IN  BfsLoop(g, seed, {}, seed)

\* the dependencies of the roots taken, theirs not followed
get_transitive_dependencies_one_step(g, roots) ==
    LET seed == Range(SelectSeq(roots, LAMBDA n : n \in g.nodes))
    IN  seed \cup UNION {Range(neighbors_directed(g, n, "Outgoing")) : n \in seed}

get_transitive_dependencies(g, roots) == TransitiveRun(g, roots).visited

----------------------------------------------------------------------------
(* analyze_usage *)

\* x, named xname, put into the name-sorted sequence s (names: the names of
\* its elements) after every element that does not compare greater: what a
\* stable sort does with equal names
InsertByName(x, xname, s, names) ==
    LET k == Cardinality({i \in 1..Len(s) : ~NameLess(xname, names[i])})
    IN  SubSeq(s, 1, k) \o <<x>> \o SubSeq(s, k + 1, Len(s))

\* v.sort_by(|a, b| a.name.cmp(&b.name)): a stable sort
RECURSIVE SortPackages(_)
SortPackages(s) ==
    IF s = <<>> THEN <<>>
    ELSE LET rest == SortPackages(SubSeq(s, 1, Len(s) - 1))
         IN  InsertByName(s[Len(s)], s[Len(s)].name, rest,
                          [i \in 1..Len(rest) |-> rest[i].name])

\* used.sort_by(|a, b| a.package.name.cmp(&b.package.name))
RECURSIVE SortUsages(_)
SortUsages(s) ==
    IF s = <<>> THEN <<>>
    ELSE LET rest == SortUsages(SubSeq(s, 1, Len(s) - 1))
         IN  InsertByName(s[Len(s)], s[Len(s)].package.name, rest,
                          [i \in 1..Len(rest) |-> rest[i].package.name])

EmptyBuckets ==
    [used |-> <<>>, unused |-> <<>>, expected_unused |-> <<>>, dev_only |-> <<>>,
     unused_direct |-> <<>>, expected_unused_direct |-> <<>>]

\* the allowlist asked before the usage
ClassifyStep_allowlist_first(b, pkgs, name, used_packages, transitively_used, include_dev) ==
    LET pkg     == pkgs[name]
        is_used == name \in used_packages \/ name \in transitively_used
        toUsed  == [b EXCEPT !.used = Append(@,
                       [package |-> pkg,
                        import_count |-> IF name \in used_packages THEN 1 ELSE 0])]
        toExpected == [b EXCEPT !.expected_unused = Append(@, pkg),
                                !.expected_unused_direct =
                                    IF pkg.is_direct THEN Append(@, pkg) ELSE @]
        toDevOnly == [b EXCEPT !.dev_only = Append(@, pkg)]
        toUnused  == [b EXCEPT !.unused = Append(@, pkg),
                               !.unused_direct =
                                   IF pkg.is_direct THEN Append(@, pkg) ELSE @]
    IN  IF ~include_dev /\ pkg.is_dev THEN b
        ELSE IF is_expected_unused(name) THEN toExpected
        ELSE IF is_used THEN toUsed
        ELSE IF pkg.is_dev /\ ~pkg.is_direct THEN toDevOnly
        ELSE toUnused

\* the dev skip applied only to packages that are not used
ClassifyStep_skip_after_used(b, pkgs, name, used_packages, transitively_used, include_dev) ==
    LET pkg     == pkgs[name]
        is_used == name \in used_packages \/ name \in transitively_used
        toUsed  == [b EXCEPT !.used = Append(@,
                       [package |-> pkg,
                        import_count |-> IF name \in used_packages THEN 1 ELSE 0])]
        toExpected == [b EXCEPT !.expected_unused = Append(@, pkg),
                                !.expected_unused_direct =
                                    IF pkg.is_direct THEN Append(@, pkg) ELSE @]
        toDevOnly == [b EXCEPT !.dev_only = Append(@, pkg)]
        toUnused  == [b EXCEPT !.unused = Append(@, pkg),
                               !.unused_direct =
                                   IF pkg.is_direct THEN Append(@, pkg) ELSE @]
    IN  IF is_used THEN toUsed
        ELSE IF ~include_dev /\ pkg.is_dev THEN b
        ELSE IF is_expected_unused(name) THEN toExpected
        ELSE IF pkg.is_dev /\ ~pkg.is_direct THEN toDevOnly
        ELSE toUnused

\* the dev-only test made before the allowlist test
ClassifyStep_dev_only_first(b, pkgs, name, used_packages, transitively_used, include_dev) ==
    LET pkg     == pkgs[name]
        is_used == name \in used_packages \/ name \in transitively_used
        toUsed  == [b EXCEPT !.used = Append(@,
                       [package |-> pkg,
                        import_count |-> IF name \in used_packages THEN 1 ELSE 0])]
        toExpected == [b EXCEPT !.expected_unused = Append(@, pkg),
                                !.expected_unused_direct =
                                    IF pkg.is_direct THEN Append(@, pkg) ELSE @]
        toDevOnly == [b EXCEPT !.dev_only = Append(@, pkg)]
        toUnused  == [b EXCEPT !.unused = Append(@, pkg),
                               !.unused_direct =
                                   IF pkg.is_direct THEN Append(@, pkg) ELSE @]
    IN  IF ~include_dev /\ pkg.is_dev THEN b
        ELSE IF is_used THEN toUsed
        ELSE IF pkg.is_dev /\ ~pkg.is_direct THEN toDevOnly
        ELSE IF is_expected_unused(name) THEN toExpected
        ELSE toUnused

\* every entry of used counted as imported
ClassifyStep_counts_closure(b, pkgs, name, used_packages, transitively_used, include_dev) ==
    LET pkg     == pkgs[name]
        is_used == name \in used_packages \/ name \in transitively_used
        toUsed  == [b EXCEPT !.used = Append(@,
                       [package |-> pkg,
                        import_count |-> 1])]
        toExpected == [b EXCEPT !.expected_unused = Append(@, pkg),
                                !.expected_unused_direct =
                                    IF pkg.is_direct THEN Append(@, pkg) ELSE @]
        toDevOnly == [b EXCEPT !.dev_only = Append(@, pkg)]
        toUnused  == [b EXCEPT !.unused = Append(@, pkg),
                               !.unused_direct =
                                   IF pkg.is_direct THEN Append(@, pkg) ELSE @]
    IN  IF ~include_dev /\ pkg.is_dev THEN b
        ELSE IF is_used THEN toUsed
        ELSE IF is_expected_unused(name) THEN toExpected
        ELSE IF pkg.is_dev /\ ~pkg.is_direct THEN toDevOnly
        ELSE toUnused

\* the closure of the roots left out of the usage test
ClassifyStep_roots_only(b, pkgs, name, used_packages, transitively_used, include_dev) ==
    LET pkg     == pkgs[name]
        is_used == name \in used_packages
        toUsed  == [b EXCEPT !.used = Append(@,
                       [package |-> pkg,
                        import_count |-> IF name \in used_packages THEN 1 ELSE 0])]
        toExpected == [b EXCEPT !.expected_unused = Append(@, pkg),
                                !.expected_unused_direct =
                                    IF pkg.is_direct THEN Append(@, pkg) ELSE @]
        toDevOnly == [b EXCEPT !.dev_only = Append(@, pkg)]
        toUnused  == [b EXCEPT !.unused = Append(@, pkg),
                               !.unused_direct =
                                   IF pkg.is_direct THEN Append(@, pkg) ELSE @]
    IN  IF ~include_dev /\ pkg.is_dev THEN b
        ELSE IF is_used THEN toUsed
        ELSE IF is_expected_unused(name) THEN toExpected
        ELSE IF pkg.is_dev /\ ~pkg.is_direct THEN toDevOnly
        ELSE toUnused

\* one iteration of `for (name, pkg) in &self.packages`
ClassifyStep(b, pkgs, name, used_packages, transitively_used, include_dev) ==
    LET pkg     == pkgs[name]
        is_used == name \in used_packages \/ name \in transitively_used
        toUsed  == [b EXCEPT !.used = Append(@,
                       [package |-> pkg,
                        import_count |-> IF name \in used_packages THEN 1 ELSE 0])]
        toExpected == [b EXCEPT !.expected_unused = Append(@, pkg),
                                !.expected_unused_direct =
                                    IF pkg.is_direct THEN Append(@, pkg) ELSE @]
        toDevOnly == [b EXCEPT !.dev_only = Append(@, pkg)]
        toUnused  == [b EXCEPT !.unused = Append(@, pkg),
                               !.unused_direct =
                                   IF pkg.is_direct THEN Append(@, pkg) ELSE @]
    IN  IF ~include_dev /\ pkg.is_dev THEN b
        ELSE IF is_used THEN toUsed
        ELSE IF is_expected_unused(name) THEN toExpected
        ELSE IF pkg.is_dev /\ ~pkg.is_direct THEN toDevOnly
        ELSE toUnused

RECURSIVE ClassifyLoop(_, _, _, _, _, _, _)
ClassifyLoop(b, pkgs, ord, i, used_packages, transitively_used, include_dev) ==
    IF i > Len(ord) THEN b
    ELSE ClassifyLoop(
             ClassifyStep(b, pkgs, ord[i], used_packages, transitively_used, include_dev),
             pkgs, ord, i + 1, used_packages, transitively_used, include_dev)

\* the sorts that end analyze_usage: dev_only is handed back as pushed
SortBuckets(b) ==
    [used |-> SortUsages(b.used),
     unused |-> SortPackages(b.unused),
     expected_unused |-> SortPackages(b.expected_unused),
     dev_only |-> b.dev_only,
     unused_direct |-> SortPackages(b.unused_direct),
     expected_unused_direct |-> SortPackages(b.expected_unused_direct)]

\* analyze_usage from its second statement on: the loop over self.packages,
\* visited in the order ord, and the sorts
classify_packages(pkgs, used_packages, transitively_used, include_dev, ord) ==
    SortBuckets(ClassifyLoop(EmptyBuckets, pkgs, ord, 1, used_packages,
                             transitively_used, include_dev))

----------------------------------------------------------------------------
(* find_dependency_chains and explain_package *)

\* chains.truncate(5)
ChainLimit == 5

\* the comparison turned round: the longest chains first
InsertByLen_longest_first(c, s) ==
    LET k == Cardinality({i \in 1..Len(s) : Len(s[i]) >= Len(c)})
    IN  SubSeq(s, 1, k) \o <<c>> \o SubSeq(s, k + 1, Len(s))

\* c put after every chain of s that is not longer: a stable sort by length
InsertByLen(c, s) ==
    LET k == Cardinality({i \in 1..Len(s) : Len(s[i]) <= Len(c)})
    IN  SubSeq(s, 1, k) \o <<c>> \o SubSeq(s, k + 1, Len(s))

\* chains.sort_by_key(|c| c.len())
RECURSIVE SortByLen(_)
SortByLen(s) ==
    IF s = <<>> THEN <<>>
    ELSE InsertByLen(s[Len(s)], SortByLen(SubSeq(s, 1, Len(s) - 1)))

\* the cut left out
Truncate_nothing(s, n) == s

Truncate(s, n) == IF Len(s) > n THEN SubSeq(s, 1, n) ELSE s

IsDirect(pkgs, name) == name \in DOMAIN pkgs /\ pkgs[name].is_direct

\* the cycle guard looking past the package the path starts with
VisitNeighbor_guard_skips_head(pkgs, neighbor_name, path, st) ==
    IF Contains(Tail(path), neighbor_name) THEN st
    ELSE LET new_path == <<neighbor_name>> \o path
         IN  IF IsDirect(pkgs, neighbor_name)
             THEN IF new_path \in st.visited_paths THEN st
                  ELSE [st EXCEPT !.visited_paths = @ \cup {new_path},
                                  !.chains = Append(@, new_path)]
             ELSE [st EXCEPT !.queue = Append(@, <<neighbor_name, new_path>>),
                             !.pushed = Append(@, new_path)]

\* the dependant put at the end of the path instead of its front
VisitNeighbor_appends(pkgs, neighbor_name, path, st) ==
    IF Contains(path, neighbor_name) THEN st
    ELSE LET new_path == path \o <<neighbor_name>>
         IN  IF IsDirect(pkgs, neighbor_name)
             THEN IF new_path \in st.visited_paths THEN st
                  ELSE [st EXCEPT !.visited_paths = @ \cup {new_path},
                                  !.chains = Append(@, new_path)]
             ELSE [st EXCEPT !.queue = Append(@, <<neighbor_name, new_path>>),
                             !.pushed = Append(@, new_path)]

\* a path that reached a direct package searched on all the same
VisitNeighbor_searches_on(pkgs, neighbor_name, path, st) ==
    IF Contains(path, neighbor_name) THEN st
    ELSE LET new_path == <<neighbor_name>> \o path
             on       == [st EXCEPT !.queue = Append(@, <<neighbor_name, new_path>>),
                                    !.pushed = Append(@, new_path)]
         IN  IF IsDirect(pkgs, neighbor_name)
             THEN IF new_path \in st.visited_paths THEN on
                  ELSE [on EXCEPT !.visited_paths = @ \cup {new_path},
                                  !.chains = Append(@, new_path)]
             ELSE on

\* the visited_paths test left out
VisitNeighbor_no_seen_paths(pkgs, neighbor_name, path, st) ==
    IF Contains(path, neighbor_name) THEN st
    ELSE LET new_path == <<neighbor_name>> \o path
         IN  IF IsDirect(pkgs, neighbor_name)
             THEN [st EXCEPT !.visited_paths = @ \cup {new_path},
                             !.chains = Append(@, new_path)]
             ELSE [st EXCEPT !.queue = Append(@, <<neighbor_name, new_path>>),
                             !.pushed = Append(@, new_path)]

\* the body of `for neighbor in neighbors_directed(current, Incoming)`;
\* st holds the queue, the chains and the visited_paths of the search
VisitNeighbor(pkgs, neighbor_name, path, st) ==
    IF Contains(path, neighbor_name) THEN st
    ELSE LET new_path == <<neighbor_name>> \o path
         IN  IF IsDirect(pkgs, neighbor_name)
             THEN IF new_path \in st.visited_paths THEN st
                  ELSE [st EXCEPT !.visited_paths = @ \cup {new_path},
                                  !.chains = Append(@, new_path)]
             ELSE [st EXCEPT !.queue = Append(@, <<neighbor_name, new_path>>),
                             !.pushed = Append(@, new_path)]

RECURSIVE VisitNeighbors(_, _, _, _, _)
VisitNeighbors(pkgs, nbrs, i, path, st) ==
    IF i > Len(nbrs) THEN st
    ELSE VisitNeighbors(pkgs, nbrs, i + 1, path,
                        VisitNeighbor(pkgs, nbrs[i], path, st))

\* while let Some((current, path)) = queue.pop_front()
RECURSIVE SearchLoop(_, _, _)
SearchLoop(g, pkgs, st) ==
    IF st.queue = <<>> THEN st
    ELSE LET current == Head(st.queue)[1]
             path    == Head(st.queue)[2]
         IN  SearchLoop(g, pkgs,
                 VisitNeighbors(pkgs, neighbors_directed(g, current, "Incoming"), 1,
                                path, [st EXCEPT !.queue = Tail(@)]))

\* the search of a target that is not direct, before the sort and the cut;
\* pushed records the path of every queue.push_back
ChainSearch(g, pkgs, target) ==
    SearchLoop(g, pkgs,
        [queue |-> << <<target, <<target>> >> >>, chains |-> <<>>,
         visited_paths |-> {}, pushed |-> << <<target>> >>])

\* the early return for a direct target left out
find_dependency_chains_always_search(g, pkgs, target) ==
    Truncate(SortByLen(ChainSearch(g, pkgs, target).chains), ChainLimit)

find_dependency_chains(g, pkgs, target) ==
    IF IsDirect(pkgs, target) THEN << <<target>> >>
    ELSE Truncate(SortByLen(ChainSearch(g, pkgs, target).chains), ChainLimit)

\* all() where the code says any()
IsDevPath_all(pkgs, chains) ==
    \A i \in 1..Len(chains) :
        /\ chains[i] # <<>>
        /\ chains[i][1] \in DOMAIN pkgs
        /\ pkgs[chains[i][1]].is_dev

\* chains.iter().any(|chain| chain.first().map_or(false, |root| ... p.is_dev))
IsDevPath(pkgs, chains) ==
    \E i \in 1..Len(chains) :
        /\ chains[i] # <<>>
        /\ chains[i][1] \in DOMAIN pkgs
        /\ pkgs[chains[i][1]].is_dev

None == [is_some |-> FALSE]

Some(x) == [is_some |-> TRUE, value |-> x]

\* a target nothing leads to reported as not found
explain_package_none_when_no_chain(g, pkgs, package_name) ==
    IF package_name \notin DOMAIN pkgs \/ package_name \notin g.nodes THEN None
    ELSE LET chains == find_dependency_chains(g, pkgs, package_name)
         IN  IF chains = <<>> THEN None
             ELSE Some([package |-> pkgs[package_name],
                        dependency_chains |-> chains,
                        is_dev_path |-> IsDevPath(pkgs, chains)])

explain_package(g, pkgs, package_name) ==
    IF package_name \notin DOMAIN pkgs \/ package_name \notin g.nodes THEN None
    ELSE LET chains == find_dependency_chains(g, pkgs, package_name)
         IN  Some([package |-> pkgs[package_name],
                   dependency_chains |-> chains,
                   is_dev_path |-> IsDevPath(pkgs, chains)])

----------------------------------------------------------------------------
(* Strings and versions: str::cmp and semver::Version::parse *)

\* the bytes of the characters of the version strings of the model
CharRank ==
    ("." :> 46) @@ ("0" :> 48) @@ ("1" :> 49) @@ ("2" :> 50) @@ ("3" :> 51)
    @@ ("4" :> 52) @@ ("5" :> 53) @@ ("6" :> 54) @@ ("7" :> 55) @@ ("8" :> 56)
    @@ ("9" :> 57) @@ ("x" :> 120)

Digits == {"0", "1", "2", "3", "4", "5", "6", "7", "8", "9"}

IsDigit(c) == c \in Digits

DigitValue(c) == CharRank[c] - CharRank["0"]

\* a.cmp(b) on two strings: byte by byte, a proper prefix being less
RECURSIVE StrCmp(_, _)
StrCmp(a, b) ==
    IF Len(a) = 0 /\ Len(b) = 0 THEN "Equal"
    ELSE IF Len(a) = 0 THEN "Less"
    ELSE IF Len(b) = 0 THEN "Greater"
    ELSE LET ra == CharRank[SubSeq(a, 1, 1)]
             rb == CharRank[SubSeq(b, 1, 1)]
         IN  IF ra < rb THEN "Less"
             ELSE IF ra > rb THEN "Greater"
             ELSE StrCmp(SubSeq(a, 2, Len(a)), SubSeq(b, 2, Len(b)))

\* the parts of s between the occurrences of the character sep
RECURSIVE Split(_, _)
Split(s, sep) ==
    LET hits == {i \in 1..Len(s) : SubSeq(s, i, i) = sep}
    IN  IF hits = {} THEN <<s>>
        ELSE LET i == CHOOSE h \in hits : \A g \in hits : h <= g
             IN  <<SubSeq(s, 1, i - 1)>> \o Split(SubSeq(s, i + 1, Len(s)), sep)

\* a numeric identifier of semver: digits, not empty, no leading zero
IsNumericIdentifier(s) ==
    /\ Len(s) > 0
    /\ \A i \in 1..Len(s) : IsDigit(SubSeq(s, i, i))
    /\ Len(s) > 1 => SubSeq(s, 1, 1) # "0"

RECURSIVE NumericValue(_)
NumericValue(s) ==
    IF Len(s) = 0 THEN 0
    ELSE 10 * NumericValue(SubSeq(s, 1, Len(s) - 1)) + DigitValue(SubSeq(s, Len(s), Len(s)))

\* Version::parse on a string with neither pre-release nor build metadata
\* (the model's strings hold no '-' and no '+'): MAJOR.MINOR.PATCH or an error
Version_parse(s) ==
    LET parts == Split(s, ".")
    IN  IF Len(parts) = 3 /\ \A i \in 1..3 : IsNumericIdentifier(parts[i])
        THEN [ok |-> TRUE, major |-> NumericValue(parts[1]),
              minor |-> NumericValue(parts[2]), patch |-> NumericValue(parts[3])]
        ELSE [ok |-> FALSE]

\* va.cmp(&vb) on two parsed versions
Version_cmp(va, vb) ==
    IF va.major # vb.major THEN (IF va.major < vb.major THEN "Less" ELSE "Greater")
    ELSE IF va.minor # vb.minor THEN (IF va.minor < vb.minor THEN "Less" ELSE "Greater")
    ELSE IF va.patch # vb.patch THEN (IF va.patch < vb.patch THEN "Less" ELSE "Greater")
    ELSE "Equal"

compare_versions(a, b) ==
    LET va == Version_parse(a)
        vb == Version_parse(b)
    IN  IF va.ok /\ vb.ok THEN Version_cmp(va, vb) ELSE StrCmp(a, b)

----------------------------------------------------------------------------
(* Cargo.lock: CargoLockfileParser *)

\* d.split_whitespace().collect()
split_whitespace(d) == SelectSeq(Split(d, " "), LAMBDA part : Len(part) > 0)

\* format!("{}@{}", name, version)
FormatKey(name, version) == name \o "@" \o version

\* the identifier a dependency string "name version" or "name" stands for
DepKey(d) ==
    LET parts == split_whitespace(d)
    IN  IF Len(parts) >= 2 THEN FormatKey(parts[1], parts[2]) ELSE parts[1]

\* the names pushed to dependents[key] while package i and those after it
\* are visited: one per dependency string that names key
RECURSIVE DependentsFrom(_, _, _)
DependentsFrom(package, i, key) ==
    IF i > Len(package) THEN <<>>
    ELSE LET hits == SelectSeq(package[i].dependencies, LAMBDA d : DepKey(d) = key)
         IN  [j \in 1..Len(hits) |-> package[i].name] \o DependentsFrom(package, i + 1, key)

\* iter().map(..).collect(): the values of s as a Vec
collect(s) == SelectSeq(s, LAMBDA x : TRUE)

\* the CargoPackageInfo of the packages named name, in lockfile order
InfosOf(package, name) ==
    LET mine == SelectSeq(package, LAMBDA pkg : pkg.name = name)
    IN  collect([i \in 1..Len(mine) |->
            [version     |-> mine[i].version,
             dependents  |-> DependentsFrom(package, 1,
                                            FormatKey(mine[i].name, mine[i].version)),
             is_path_dep |-> ~mine[i].has_source]])

\* by_name.entry(name).or_default().push(..) for the tables named in names
RECURSIVE GroupByName(_, _)
GroupByName(package, names) ==
    IF names = {} THEN <<>>
    ELSE LET name == CHOOSE n \in names : TRUE
         IN  (name :> InfosOf(package, name)) @@ GroupByName(package, names \ {name})

\* package: lockfile.package, the [[package]] tables in file order
parse_for_duplicates(package) ==
    GroupByName(package, {package[i].name : i \in 1..Len(package)})

\* Package::new(name, version).with_dependencies(deps), direct() when the
\* table has no source
CargoPackageOf(pkg) ==
    [name |-> pkg.name, version |-> pkg.version, is_direct |-> ~pkg.has_source,
     is_dev |-> FALSE,
     dependencies |-> [i \in 1..Len(pkg.dependencies) |-> DepKey(pkg.dependencies[i])]]

\* packages.insert(key, package) for every table in file order: of two
\* tables with one key the later stays
build_package_map(package) ==
    LET KeyAt(i) == FormatKey(package[i].name, package[i].version)
    IN  [key \in {KeyAt(i) : i \in 1..Len(package)} |->
            CargoPackageOf(package[CHOOSE i \in 1..Len(package) :
                                       /\ KeyAt(i) = key
                                       /\ \A j \in 1..Len(package) : KeyAt(j) = key => j <= i])]

----------------------------------------------------------------------------
(* duplicates.rs *)

\* the reverse_graph.insert(key, &v.dependents) calls of the loop over the
\* names of the map, as (key, dependents) pairs in the order made
RECURSIVE ReverseInserts(_, _)
ReverseInserts(packages_by_name, names) ==
    IF names = {} THEN <<>>
    ELSE LET name == CHOOSE n \in names : TRUE
             versions == packages_by_name[name]
         IN  collect([i \in 1..Len(versions) |->
                         [key |-> FormatKey(name, versions[i].version),
                          dependents |-> versions[i].dependents]])
             \o ReverseInserts(packages_by_name, names \ {name})

\* reverse_graph: name@version -> dependents; for a key inserted twice the
\* insert made last stays
ReverseGraph(packages_by_name) ==
    LET inserts == ReverseInserts(packages_by_name, DOMAIN packages_by_name)
    IN  [key \in {inserts[i].key : i \in 1..Len(inserts)} |->
            LET mine == SelectSeq(inserts, LAMBDA e : e.key = key)
            IN  mine[Len(mine)].dependents]

\* for dep in deps { if visited.insert(dep) { queue.push_back(dep) } }
RECURSIVE PushUnvisited(_, _, _)
PushUnvisited(deps, i, st) ==
    IF i > Len(deps) THEN st
    ELSE PushUnvisited(deps, i + 1,
             IF deps[i] \in st.visited THEN st
             ELSE [st EXCEPT !.visited = @ \cup {deps[i]}, !.queue = Append(@, deps[i])])

\* while let Some(current) = queue.pop_front()
RECURSIVE CountLoop(_, _)
CountLoop(reverse_graph, st) ==
    IF st.queue = <<>> THEN st
    ELSE LET current == Head(st.queue)
             popped  == [st EXCEPT !.queue = Tail(@), !.count = @ + 1]
         IN  CountLoop(reverse_graph,
                 IF current \in DOMAIN reverse_graph
                 THEN PushUnvisited(reverse_graph[current], 1, popped)
                 ELSE popped)

\* the dependents of the key counted, those of its dependents not followed
calculate_transitive_dependents_direct_only(package_key, packages_by_name) ==
    LET reverse_graph == ReverseGraph(packages_by_name)
        start == [visited |-> {}, queue |-> <<>>, count |-> 0]
        seeded == IF package_key \in DOMAIN reverse_graph
                  THEN PushUnvisited(reverse_graph[package_key], 1, start)
                  ELSE start
    IN  Len(seeded.queue)

calculate_transitive_dependents(package_key, packages_by_name) ==
    LET reverse_graph == ReverseGraph(packages_by_name)
        start == [visited |-> {}, queue |-> <<>>, count |-> 0]
        seeded == IF package_key \in DOMAIN reverse_graph
                  THEN PushUnvisited(reverse_graph[package_key], 1, start)
                  ELSE start
    IN  CountLoop(reverse_graph, seeded).count

\* DuplicateSeverity derives Ord: Low < Medium < High
SeverityRank(severity) ==
    CASE severity = "Low" -> 1
      [] severity = "Medium" -> 2
      [] severity = "High" -> 3

\* High only above three versions
calculate_severity_above_three(versions) ==
    LET parsed == SelectSeq(versions, LAMBDA v : Version_parse(v.version).ok)
        major_versions == [i \in 1..Len(parsed) |-> Version_parse(parsed[i].version).major]
    IN  IF Len(versions) > 3 THEN "High"
        ELSE IF major_versions = <<>> THEN "Low"
        ELSE IF \A i \in 1..Len(major_versions) : major_versions[i] = major_versions[1]
             THEN "Low"
        ELSE "Medium"

calculate_severity(versions) ==
    LET parsed == SelectSeq(versions, LAMBDA v : Version_parse(v.version).ok)
        major_versions == [i \in 1..Len(parsed) |-> Version_parse(parsed[i].version).major]
    IN  IF Len(versions) >= 3 THEN "High"
        ELSE IF major_versions = <<>> THEN "Low"
        ELSE IF \A i \in 1..Len(major_versions) : major_versions[i] = major_versions[1]
             THEN "Low"
        ELSE "Medium"

\* compare_versions orders the versions of s: what sort_by asks of its
\* closure (a total order) holds among them
ComparesAsTotalOrder(s) ==
    LET versions == {s[i].version : i \in 1..Len(s)}
        notAfter == {p \in versions \X versions : compare_versions(p[1], p[2]) # "Greater"}
    IN  \A p, q \in notAfter : p[2] = q[1] => <<p[1], q[2]>> \in notAfter

\* x put into the sorted s after every element that does not compare greater
InsertByVersion(x, s) ==
    LET k == Cardinality({i \in 1..Len(s) :
                              compare_versions(s[i].version, x.version) # "Greater"})
    IN  SubSeq(s, 1, k) \o <<x>> \o SubSeq(s, k + 1, Len(s))

RECURSIVE StableSortVersions(_)
StableSortVersions(s) ==
    IF s = <<>> THEN <<>>
    ELSE InsertByVersion(s[Len(s)], StableSortVersions(SubSeq(s, 1, Len(s) - 1)))

\* version_infos.sort_by(|a, b| compare_versions(&a.version, &b.version)):
\* the stable sort when the closure is a total order on the elements;
\* otherwise the order is unspecified and the call may panic (slice::sort_by)
SortVersions(s) ==
    IF ComparesAsTotalOrder(s)
    THEN {[panicked |-> FALSE, sorted |-> StableSortVersions(s)]}
    ELSE {[panicked |-> FALSE, sorted |-> [i \in 1..Len(s) |-> s[ord[i]]]] :
              ord \in Orders(1..Len(s))}
         \cup {[panicked |-> TRUE]}

\* b.severity.cmp(&a.severity).then_with(|| a.name.cmp(&b.name)) is not Greater
GroupNotAfter(a, b) ==
    \/ SeverityRank(a.severity) > SeverityRank(b.severity)
    \/ a.severity = b.severity /\ ~NameLess(b.name, a.name)

\* the groups by name alone
InsertGroup_by_name_only(x, s) ==
    LET k == Cardinality({i \in 1..Len(s) : ~NameLess(x.name, s[i].name)})
    IN  SubSeq(s, 1, k) \o <<x>> \o SubSeq(s, k + 1, Len(s))

InsertGroup(x, s) ==
    LET k == Cardinality({i \in 1..Len(s) : GroupNotAfter(s[i], x)})
    IN  SubSeq(s, 1, k) \o <<x>> \o SubSeq(s, k + 1, Len(s))

\* duplicates.sort_by(...): a stable sort
RECURSIVE SortGroups(_)
SortGroups(s) ==
    IF s = <<>> THEN <<>>
    ELSE InsertGroup(s[Len(s)], SortGroups(SubSeq(s, 1, Len(s) - 1)))

\* the DuplicateVersion values of a name, before the sort
VersionInfos(packages_by_name, name) ==
    collect([i \in 1..Len(packages_by_name[name]) |->
        [version    |-> packages_by_name[name][i].version,
         dependents |-> packages_by_name[name][i].dependents,
         transitive_count |->
             calculate_transitive_dependents(
                 FormatKey(name, packages_by_name[name][i].version), packages_by_name)]])

\* one iteration of `for (name, versions) in &packages_by_name`: what it
\* may push (nothing for a single version), or the panic of the sort
GroupsOf(packages_by_name, name) ==
    IF Len(packages_by_name[name]) <= 1 THEN {[panicked |-> FALSE, pushed |-> <<>>]}
    ELSE {IF o.panicked THEN [panicked |-> TRUE, pushed |-> <<>>]
          ELSE [panicked |-> FALSE,
                pushed |-> <<[name |-> name, versions |-> o.sorted,
                              severity |-> calculate_severity(o.sorted)]>>] :
              o \in SortVersions(VersionInfos(packages_by_name, name))}

\* the loop over packages_by_name in the order ord: every list of groups it
\* may end with
RECURSIVE DuplicatesLoop(_, _, _, _)
DuplicatesLoop(packages_by_name, ord, i, duplicates) ==
    IF i > Len(ord) THEN {[panicked |-> FALSE, duplicates |-> duplicates]}
    ELSE UNION {IF g.panicked THEN {[panicked |-> TRUE, duplicates |-> <<>>]}
                ELSE DuplicatesLoop(packages_by_name, ord, i + 1, duplicates \o g.pushed) :
                    g \in GroupsOf(packages_by_name, ord[i])}

CountSeverity(duplicates, severity) ==
    Cardinality({i \in 1..Len(duplicates) : duplicates[i].severity = severity})

\* duplicates.iter().map(|d| d.versions.len() - 1).sum()
RECURSIVE ExtraCompileUnits(_)
ExtraCompileUnits(duplicates) ==
    IF duplicates = <<>> THEN 0
    ELSE (Len(Head(duplicates).versions) - 1) + ExtraCompileUnits(Tail(duplicates))

\* every version counted, the first of a group included
DuplicateStats_counts_every_version(duplicates) ==
    [total_duplicates |-> Len(duplicates),
     high_severity    |-> CountSeverity(duplicates, "High"),
     medium_severity  |-> CountSeverity(duplicates, "Medium"),
     low_severity     |-> CountSeverity(duplicates, "Low"),
     extra_compile_units |-> ExtraCompileUnits(duplicates) + Len(duplicates)]

DuplicateStats(duplicates) ==
    [total_duplicates |-> Len(duplicates),
     high_severity    |-> CountSeverity(duplicates, "High"),
     medium_severity  |-> CountSeverity(duplicates, "Medium"),
     low_severity     |-> CountSeverity(duplicates, "Low"),
     extra_compile_units |-> ExtraCompileUnits(duplicates)]

\* ord: the order in which the loop visits packages_by_name; the value is
\* every outcome of the call: an analysis, or the panic of a sort
analyze_generic(packages_by_name, ord) ==
    {IF o.panicked THEN [kind |-> "panic"]
     ELSE [kind |-> "duplicates",
           analysis |-> [duplicates |-> SortGroups(o.duplicates),
                         stats |-> DuplicateStats(SortGroups(o.duplicates))]] :
         o \in DuplicatesLoop(packages_by_name, ord, 1, <<>>)}

----------------------------------------------------------------------------
(* The program: parse, build the graph, ask one query *)

\* what a dependency list may name: the packages and a name that is none
DepIds == Keys \cup {Absent}

\* the dependency lists of the packages S of a lockfile with at most n
\* dependency entries in all
RECURSIVE DepConfigs(_, _)
DepConfigs(S, n) ==
    IF S = {} THEN {[k \in {} |-> <<>>]}
    ELSE LET k == CHOOSE x \in S : TRUE
         IN  UNION {{[x \in DOMAIN rest \cup {k} |-> IF x = k THEN deps ELSE rest[x]] :
                        rest \in DepConfigs(S \ {k}, n - Len(deps))} :
                    deps \in SeqsUpTo(DepIds, n)}

\* the maps the npm parser hands over for such a lockfile: the key of a
\* package is its name, the two flags are free
PackageMaps(n) ==
    {[k \in Keys |-> [name |-> k, is_direct |-> k \in direct, is_dev |-> k \in dev,
                      dependencies |-> deps[k]]] :
        deps \in DepConfigs(Keys, n), direct \in SUBSET Keys, dev \in SUBSET Keys}

\* The maps of the dense project: three web frameworks that each pull in
\* body-parser and raw-body, and body-parser pulling in raw-body (the shape
\* of the fixture create_test_packages, widened); the flags are free, the
\* dev flag on the frameworks only
Frameworks == {"express", "fastify", "koa"}

DenseKeys == Frameworks \cup {"body-parser", "raw-body"}

DenseDeps(k) ==
    CASE k \in Frameworks -> <<"body-parser", "raw-body">>
      [] k = "body-parser" -> <<"raw-body">>
      [] OTHER -> <<>>

DenseMaps ==
    {[k \in DenseKeys |-> [name |-> k, is_direct |-> k \in direct,
                           is_dev |-> k \in dev, dependencies |-> DenseDeps(k)]] :
        direct \in SUBSET DenseKeys, dev \in SUBSET Frameworks}

\* The maps of a project with two packages off the allowlist, koa built on
\* express or not; the flags are free
PlainKeys == {"express", "koa"}

PlainMaps ==
    {[k \in PlainKeys |-> [name |-> k, is_direct |-> k \in direct, is_dev |-> k \in dev,
                           dependencies |-> IF k = "koa" THEN deps ELSE <<>>]] :
        deps \in {<<>>, <<"express">>}, direct \in SUBSET PlainKeys,
        dev \in SUBSET PlainKeys}

\* the root sets of a query: names of packages and names of none
UsedSets == {S \in SUBSET DepIds : Cardinality(S) <= MaxRoots}

\* the lockfile of an npm project: the model starts from the package map
\* NpmLockfileParser::parse hands over
PackageLock == [type |-> "Npm"]

\* the functions under test called on values built by hand: no lockfile
NoLockfile == [type |-> "None"]

\* the items of the lists of the members of S, at most n in all
RECURSIVE ListConfigs(_, _, _)
ListConfigs(S, n, items) ==
    IF S = {} THEN {[k \in {} |-> <<>>]}
    ELSE LET k == CHOOSE x \in S : TRUE
         IN  UNION {{[x \in DOMAIN rest \cup {k} |-> IF x = k THEN list ELSE rest[x]] :
                        rest \in ListConfigs(S \ {k}, n - Len(list), items)} :
                    list \in SeqsUpTo(items, n)}

\* the version strings of the model: semver ones, among them a pair semver
\* and byte order rank differently (2.0.0, 10.0.0), and one that is none
CrateVersions == {"1.0.0", "1.1.0", "1.2.0", "2.0.0", "10.0.0", "1x"}

\* a [[package]] table
CrateTable(name, version, has_source, dependencies) ==
    [name |-> name, version |-> version, has_source |-> has_source,
     dependencies |-> dependencies]

\* the tables of the crates of order, crate by crate, each with the versions
\* versions gives it in the order given, from a registry, no dependencies
RECURSIVE TablesIn(_, _, _)
TablesIn(versions, order, i) ==
    IF i > Len(order) THEN <<>>
    ELSE [j \in 1..Len(versions[order[i]]) |->
              CrateTable(order[i], versions[order[i]][j], TRUE, <<>>)]
         \o TablesIn(versions, order, i + 1)

CrateOrder(S) == SelectSeq(NameOrder, LAMBDA name : name \in S)

\* lockfiles of one crate with at most n tables, the versions free
FreeCrates == {"serde"}

FreeLockfiles(n) ==
    {TablesIn(versions, CrateOrder(FreeCrates), 1) :
         versions \in ListConfigs(FreeCrates, n, CrateVersions)}

\* lockfiles of three crates, each with one of a few version lists: a single
\* version, same major, two majors, three versions, none semver, one semver
ListedCrates == {"rand", "serde", "syn"}

ListedVersions ==
    { <<"1.0.0">>, <<"1.0.0", "1.2.0">>, <<"2.0.0", "1.0.0">>,
      <<"1.2.0", "1.0.0", "1.1.0">>, <<"1x", "1.0">>, <<"1x", "1.0.0">> }

ListedLockfiles ==
    {TablesIn(versions, CrateOrder(ListedCrates), 1) :
         versions \in [ListedCrates -> ListedVersions]}

\* The lockfiles of a workspace: the root crate app, syn and two versions of
\* serde, each table with no dependency or one
DepStrings == {"serde 1.0.0", "serde 1.2.0", "syn 2.0.0", "syn", "app 0.1.0"}

OneOrNone == {<<>>} \cup {<<d>> : d \in DepStrings}

WorkspaceLockfiles ==
    {<<CrateTable("app", "0.1.0", FALSE, d[1]),
       CrateTable("serde", "1.0.0", TRUE, d[2]),
       CrateTable("serde", "1.2.0", TRUE, d[3]),
       CrateTable("syn", "2.0.0", TRUE, d[4])>> :
         d \in [1..4 -> OneOrNone]}

CargoLock(package) == [type |-> "Cargo", package |-> package]

\* what `depx why` is asked about in a Cargo project: crate names and keys
CrateTargets == {"app", "rand", "serde", "syn", "serde@1.0.0", "syn@2.0.0"}

\* Maps built by hand as test_transitive_calculation builds its own: crates
\* of one version with dependents given as name@version, or as root
TestCrates == {"A", "B", "C"}

TestIds == {"A@1.0.0", "B@1.0.0", "C@1.0.0", "root"}

CargoPackageInfo(version, dependents) ==
    [version |-> version, dependents |-> dependents, is_path_dep |-> FALSE]

\* the map of test_transitive_calculation
TestPackages ==
    [name \in {"A", "B", "C", "D"} |->
        <<CargoPackageInfo("1.0.0",
              CASE name = "A" -> <<"root">>
                [] name = "B" -> <<"A@1.0.0", "D@1.0.0">>
                [] name = "C" -> <<"B@1.0.0">>
                [] name = "D" -> <<"root">>)>>]

DependentMaps(n) ==
    {[name \in TestCrates |-> <<CargoPackageInfo("1.0.0", dependents[name])>>] :
         dependents \in ListConfigs(TestCrates, n, TestIds)}
    \cup {TestPackages}

\* the keys calculate_transitive_dependents is asked about
TestKeys == {"A@1.0.0", "B@1.0.0", "C@1.0.0", "D@1.0.0"}

\* the names explain_package is asked about
Targets ==
    IF lockfile.type = "Cargo" THEN CrateTargets
    ELSE Keys \cup DenseKeys \cup {Absent}

NoCall == [op |-> "none"]

NoResult == [kind |-> "none"]

EmptyGraph == [nodes |-> {}, outgoing |-> <<>>, incoming |-> <<>>]

Start ==
    /\ graph = EmptyGraph
    /\ phase = "parsed"
    /\ call = NoCall
    /\ result = NoResult

Init == lockfile = PackageLock /\ packages \in PackageMaps(MaxEdges) /\ Start

InitUsage ==
    /\ lockfile = PackageLock
    /\ packages \in PackageMaps(MaxUsageEdges) \cup PlainMaps
    /\ Start

InitExplain ==
    /\ lockfile = PackageLock
    /\ packages \in PackageMaps(MaxEdges) \cup DenseMaps
    /\ Start

\* a Cargo project: the lockfile found, nothing parsed
Detected ==
    /\ packages = <<>>
    /\ graph = EmptyGraph
    /\ phase = "detected"
    /\ call = NoCall
    /\ result = NoResult

InitCargo ==
    /\ lockfile \in {CargoLock(package) : package \in WorkspaceLockfiles}
    /\ Detected

InitDuplicates ==
    /\ lockfile \in {CargoLock(package) :
                        package \in FreeLockfiles(MaxCrates) \cup ListedLockfiles
                                        \cup WorkspaceLockfiles}
    /\ Detected

\* packages: the map the test hands to calculate_transitive_dependents
InitTransitive ==
    /\ lockfile = NoLockfile
    /\ packages \in DependentMaps(MaxDependents)
    /\ graph = EmptyGraph
    /\ phase = "grouped"
    /\ call = NoCall
    /\ result = NoResult

\* LockfileParser::parse on a Cargo.lock
ParseCargo ==
    /\ phase = "detected"
    /\ lockfile.type = "Cargo"
    /\ packages' = build_package_map(lockfile.package)
    /\ phase' = "parsed"
    /\ UNCHANGED <<lockfile, graph, call, result>>

\* DuplicateAnalyzer::analyze on a Cargo project: parse_for_duplicates, kept
\* in packages, then analyze_generic, which visits the map in any order
AnalyzeDuplicates ==
    /\ phase = "detected"
    /\ lockfile.type = "Cargo"
    /\ LET packages_by_name == parse_for_duplicates(lockfile.package)
       IN  /\ packages' = packages_by_name
           /\ \E ord \in Orders(DOMAIN packages') :
                  result' \in analyze_generic(packages', ord)
    /\ call' = [op |-> "analyze_duplicates"]
    /\ phase' = "done"
    /\ UNCHANGED <<lockfile, graph>>

\* calculate_transitive_dependents called on its own, as the test calls it
CalculateTransitiveDependents ==
    /\ phase = "grouped"
    /\ \E package_key \in TestKeys :
           /\ call' = [op |-> "calculate_transitive_dependents",
                       package_key |-> package_key]
           /\ result' = [kind |-> "count",
                         count |-> calculate_transitive_dependents(package_key, packages)]
    /\ phase' = "done"
    /\ UNCHANGED <<lockfile, packages, graph>>

New ==
    /\ phase = "parsed"
    /\ \E ord \in Orders(DOMAIN packages) :
           graph' = DependencyGraph_new(packages, ord)
    /\ phase' = "built"
    /\ UNCHANGED <<lockfile, packages, call, result>>

\* the private traversal, called on its own as test_transitive_dependencies does
GetTransitiveDependencies ==
    /\ phase = "built"
    /\ \E roots \in UsedSets :
           /\ call' = [op |-> "get_transitive_dependencies", roots |-> roots]
           /\ \E order \in Orders(roots) :
                  result' = [kind |-> "closure",
                             visited |-> get_transitive_dependencies(graph, order)]
    /\ phase' = "done"
    /\ UNCHANGED <<lockfile, packages, graph>>

\* analyze_usage: the closure of the used roots, seeded in any order of the
\* root set, then the classification
AnalyzeUsage ==
    /\ phase = "built"
    /\ \E used_packages \in UsedSets, include_dev \in BOOLEAN :
           /\ call' = [op |-> "analyze_usage", used_packages |-> used_packages,
                       include_dev |-> include_dev]
           /\ \E transitively_used \in
                      {get_transitive_dependencies(graph, roots) :
                           roots \in Orders(used_packages)} :
                  \E ord \in Orders(DOMAIN packages) :
                      result' = [kind |-> "usage",
                                 analysis |-> classify_packages(packages, used_packages,
                                                  transitively_used, include_dev, ord)]
    /\ phase' = "done"
    /\ UNCHANGED <<lockfile, packages, graph>>

ExplainPackage ==
    /\ phase = "built"
    /\ \E package_name \in Targets :
           /\ call' = [op |-> "explain_package", package_name |-> package_name]
           /\ result' = [kind |-> "explain",
                         explanation |-> explain_package(graph, packages, package_name)]
    /\ phase' = "done"
    /\ UNCHANGED <<lockfile, packages, graph>>

Next ==
    \/ New \/ GetTransitiveDependencies \/ AnalyzeUsage \/ ExplainPackage
    \/ ParseCargo \/ AnalyzeDuplicates \/ CalculateTransitiveDependents

\* a run of the program: any one query on any small project
Spec == Init /\ [][Next]_vars

NextClosure == New \/ GetTransitiveDependencies

SpecClosure == Init /\ [][NextClosure]_vars

NextUsage == New \/ AnalyzeUsage

\* `depx analyze`
SpecUsage == InitUsage /\ [][NextUsage]_vars

NextExplain == New \/ ExplainPackage

\* `depx why` on a small project or on the dense one
SpecExplain == InitExplain /\ [][NextExplain]_vars

NextCargo == ParseCargo \/ New \/ ExplainPackage

\* `depx why` in a Cargo project
SpecCargo == InitCargo /\ [][NextCargo]_vars

\* `depx duplicates` in a Cargo project
SpecDuplicates == InitDuplicates /\ [][AnalyzeDuplicates]_vars

\* test_transitive_calculation over the maps built by hand
SpecTransitive == InitTransitive /\ [][CalculateTransitiveDependents]_vars

----------------------------------------------------------------------------
(* What the properties speak of, read off the package map itself *)

\* a depends on b: b is a package and is listed in a's dependencies
DependsOn(a, b) ==
    /\ a \in DOMAIN packages
    /\ b \in DOMAIN packages
    /\ Contains(packages[a].dependencies, b)

\* S and everything S leads to over DependsOn
RECURSIVE ReachableFrom(_)
ReachableFrom(S) ==
    LET T == S \cup {b \in DOMAIN packages : \E a \in S : DependsOn(a, b)}
    IN  IF T = S THEN S ELSE ReachableFrom(T)

NoRepeat(s) == \A i, j \in 1..Len(s) : s[i] = s[j] => i = j

Explained == result.kind = "explain"

Target == call.package_name

\* the chains of the explanation at hand
Chains == result.explanation.value.dependency_chains

ExplainedNonDirect ==
    /\ Explained
    /\ Target \in DOMAIN packages
    /\ ~packages[Target].is_direct

----------------------------------------------------------------------------
(* Properties of get_transitive_dependencies *)

\* C1 as stated: the closure holds every name of the root set, every name
\* reachable from a root over dependant -> dependency edges, and nothing else.
C1_AllRootsInClosure ==
    result.kind = "closure" =>
        result.visited = call.roots \cup ReachableFrom(call.roots)

\* C1 amended: the closure holds exactly the roots that are nodes of the graph
\* and the names reachable from them; a root that is no package is left out.
C1_ClosureOfPresentRoots ==
    result.kind = "closure" =>
        result.visited = ReachableFrom(call.roots \cap DOMAIN packages)

\* a closure from one root that is no package and one that is, which leads on
\* to a package outside the root set
C1_Witness ==
    /\ result.kind = "closure"
    /\ Absent \in call.roots
    /\ \E r \in call.roots \cap DOMAIN packages :
           \E n \in result.visited : n \notin call.roots /\ DependsOn(r, n)

----------------------------------------------------------------------------
(* Properties of explain_package *)

\* C2: a direct package is explained by the one chain [name], whatever the
\* graph around it looks like.
C2_DirectShortCircuit ==
    (Explained /\ Target \in DOMAIN packages /\ packages[Target].is_direct) =>
        /\ result.explanation.is_some
        /\ Chains = << <<Target>> >>

\* a direct dev target on a cycle with a direct dependant
C2_Witness ==
    /\ Explained
    /\ Target \in DOMAIN packages
    /\ packages[Target].is_direct
    /\ packages[Target].is_dev
    /\ \E d \in DOMAIN packages :
           /\ d # Target
           /\ packages[d].is_direct
           /\ DependsOn(d, Target)
           /\ DependsOn(Target, d)
    /\ Chains = << <<Target>> >>

\* C3: on any graph, cyclic ones included, explain_package of a present
\* target returns, and no returned chain names a package twice.
C3_CycleSafe ==
    (Explained /\ Target \in DOMAIN packages) =>
        /\ result.explanation.is_some
        /\ \A i \in 1..Len(Chains) : NoRepeat(Chains[i])

\* a target that is not direct and depends on itself, explained by the chain
\* from a direct dependant
C3_Witness ==
    /\ ExplainedNonDirect
    /\ DependsOn(Target, Target)
    /\ Chains # <<>>

\* C4: every chain of a target that is not direct starts at a direct package,
\* ends at the target, and steps along dependant -> dependency edges.
C4_ChainsAreDependencyPaths ==
    ExplainedNonDirect =>
        \A i \in 1..Len(Chains) :
            LET c == Chains[i]
            IN  /\ c # <<>>
                /\ c[1] \in DOMAIN packages
                /\ packages[c[1]].is_direct
                /\ c[Len(c)] = Target
                /\ \A j \in 1..(Len(c) - 1) : DependsOn(c[j], c[j + 1])

\* a chain of three packages: direct, intermediate, target
C4_Witness ==
    /\ ExplainedNonDirect
    /\ \E i \in 1..Len(Chains) : Len(Chains[i]) = 3

\* C5: explain_package returns at most 5 chains, in non-decreasing length.
C5_ChainBound ==
    (Explained /\ result.explanation.is_some) =>
        /\ Len(Chains) <= 5
        /\ \A i \in 1..(Len(Chains) - 1) : Len(Chains[i]) <= Len(Chains[i + 1])

\* six chains lead to the target (three of two packages, three of three) and
\* five are returned, of both lengths
C5_Witness ==
    /\ ExplainedNonDirect
    /\ Len(ChainSearch(graph, packages, Target).chains) > 5
    /\ Len(Chains) = 5
    /\ Len(Chains[1]) < Len(Chains[5])

\* C6: explain_package returns none exactly when the name is no key of the
\* package map; a package that no chain reaches gets an explanation with no
\* chain and is_dev_path false.
C6_NoneIffAbsent ==
    Explained =>
        /\ result.explanation.is_some <=> Target \in DOMAIN packages
        /\ (result.explanation.is_some /\ Chains = <<>>) =>
               ~result.explanation.value.is_dev_path
        /\ result.explanation.is_some =>
               result.explanation.value.package = packages[Target]

\* a package that is not direct and has a dependant, yet no direct package
\* leads to it: explained with no chain
C6_Witness ==
    /\ ExplainedNonDirect
    /\ \E d \in DOMAIN packages : d # Target /\ DependsOn(d, Target)
    /\ result.explanation.is_some
    /\ Chains = <<>>

\* C7: is_dev_path is true exactly when some returned chain starts at a dev
\* package.
C7_DevPath ==
    (Explained /\ result.explanation.is_some) =>
        (result.explanation.value.is_dev_path <=>
            \E i \in 1..Len(Chains) : packages[Chains[i][1]].is_dev)

\* two chains, one from a dev package and one from a package that is not
C7_Witness ==
    /\ ExplainedNonDirect
    /\ \E i, j \in 1..Len(Chains) :
           packages[Chains[i][1]].is_dev /\ ~packages[Chains[j][1]].is_dev
    /\ result.explanation.value.is_dev_path

----------------------------------------------------------------------------
(* Properties of analyze_usage *)

Analysed == result.kind = "usage"

Analysis == result.analysis

PackageNames(bucket) == {bucket[i].name : i \in 1..Len(bucket)}

UsedNames == {Analysis.used[i].package.name : i \in 1..Len(Analysis.used)}

\* the name is a used root or something a used root leads to
IsUsed(k) ==
    \/ k \in call.used_packages
    \/ k \in ReachableFrom(call.used_packages \cap DOMAIN packages)

\* analyze_usage passes the package over: a dev package, dev not included
Skipped(k) == ~call.include_dev /\ packages[k].is_dev

\* how often the package with key k occurs in the four buckets together
Occurrences(k) ==
    Cardinality({i \in 1..Len(Analysis.used) : Analysis.used[i].package = packages[k]})
    + Cardinality({i \in 1..Len(Analysis.expected_unused) :
                       Analysis.expected_unused[i] = packages[k]})
    + Cardinality({i \in 1..Len(Analysis.dev_only) : Analysis.dev_only[i] = packages[k]})
    + Cardinality({i \in 1..Len(Analysis.unused) : Analysis.unused[i] = packages[k]})

\* C8 as stated: a package that is used, by root or by closure, and is on the
\* allowlist is in bucket used and in neither expected-unused bucket.
C8_UsedAllowlistedLandsInUsed ==
    Analysed =>
        \A k \in DOMAIN packages :
            (IsUsed(k) /\ is_expected_unused(k)) =>
                /\ k \in UsedNames
                /\ k \notin PackageNames(Analysis.expected_unused)
                /\ k \notin PackageNames(Analysis.expected_unused_direct)

\* C8 amended: such a package is in bucket used unless it is a dev package and
\* dev packages are not included, and then it is in no bucket; it is never in
\* an expected-unused bucket.
C8_UsedBeforeAllowlist ==
    Analysed =>
        \A k \in DOMAIN packages :
            (IsUsed(k) /\ is_expected_unused(k)) =>
                /\ k \in UsedNames <=> ~Skipped(k)
                /\ Skipped(k) => Occurrences(k) = 0
                /\ k \notin PackageNames(Analysis.expected_unused)
                /\ k \notin PackageNames(Analysis.expected_unused_direct)

\* dev packages left out: an allowlisted package reached from a used root is
\* in used, and an allowlisted dev package that is itself a used root is not
C8_Witness ==
    /\ Analysed
    /\ ~call.include_dev
    /\ \E k \in DOMAIN packages :
           /\ is_expected_unused(k)
           /\ k \notin call.used_packages
           /\ IsUsed(k)
           /\ k \in UsedNames
    /\ \E k \in DOMAIN packages :
           /\ is_expected_unused(k)
           /\ k \in call.used_packages
           /\ packages[k].is_dev
           /\ k \notin UsedNames

\* C9: the four buckets used, expected_unused, dev_only, unused hold every
\* package exactly once, except that with include_dev false a dev package is
\* in none of them, used or not; and they hold nothing but packages.
C9_BucketsPartition ==
    Analysed =>
        /\ \A k \in DOMAIN packages :
               Occurrences(k) = IF Skipped(k) THEN 0 ELSE 1
        /\ Len(Analysis.used) + Len(Analysis.expected_unused)
               + Len(Analysis.dev_only) + Len(Analysis.unused)
           = Cardinality({k \in DOMAIN packages : ~Skipped(k)})

\* dev packages left out: an imported dev package is in no bucket while the
\* packages that are not dev fill two different buckets
C9_Witness ==
    /\ Analysed
    /\ ~call.include_dev
    /\ \E k \in call.used_packages \cap DOMAIN packages :
           packages[k].is_dev /\ Occurrences(k) = 0
    /\ Len(Analysis.used) = 1
    /\ Len(Analysis.unused) = 1

\* C10: a package neither used nor skipped goes to expected_unused when its
\* name is on the allowlist, else to dev_only when it is dev and not direct,
\* else to unused; unused_direct and expected_unused_direct are the direct
\* members of unused and of expected_unused.
C10_UnusedClassification ==
    Analysed =>
        /\ \A k \in DOMAIN packages :
               (~IsUsed(k) /\ ~Skipped(k)) =>
                   LET expected == is_expected_unused(k)
                       devOnly  == ~expected /\ packages[k].is_dev /\ ~packages[k].is_direct
                   IN  /\ k \in PackageNames(Analysis.expected_unused) <=> expected
                       /\ k \in PackageNames(Analysis.dev_only) <=> devOnly
                       /\ k \in PackageNames(Analysis.unused) <=> (~expected /\ ~devOnly)
                       /\ k \notin UsedNames
        /\ Analysis.unused_direct
               = SelectSeq(Analysis.unused, LAMBDA p : p.is_direct)
        /\ Analysis.expected_unused_direct
               = SelectSeq(Analysis.expected_unused, LAMBDA p : p.is_direct)

\* an allowlisted dev package that is not direct sits in expected_unused, and
\* a direct dev package off the allowlist in unused and unused_direct
C10_Witness ==
    /\ Analysed
    /\ \E i \in 1..Len(Analysis.expected_unused) :
           /\ Analysis.expected_unused[i].is_dev
           /\ ~Analysis.expected_unused[i].is_direct
    /\ \E i \in 1..Len(Analysis.unused_direct) :
           /\ Analysis.unused_direct[i].is_dev
           /\ Analysis.unused_direct[i] \in Range(Analysis.unused)
    /\ Analysis.dev_only = <<>>

\* the names of a bucket of packages ascend: none is followed by a lesser one
SortedByName(names) ==
    \A i, j \in 1..Len(names) : i < j => ~NameLess(names[j], names[i])

BucketNames(bucket) == [i \in 1..Len(bucket) |-> bucket[i].name]

\* C11: each of the six buckets of analyze_usage is sorted by package name
\* ascending, in whatever order the package map was visited.
C11_AllBucketsSorted ==
    Analysed =>
        /\ SortedByName([i \in 1..Len(Analysis.used) |-> Analysis.used[i].package.name])
        /\ SortedByName(BucketNames(Analysis.unused))
        /\ SortedByName(BucketNames(Analysis.expected_unused))
        /\ SortedByName(BucketNames(Analysis.dev_only))
        /\ SortedByName(BucketNames(Analysis.unused_direct))
        /\ SortedByName(BucketNames(Analysis.expected_unused_direct))

----------------------------------------------------------------------------
(* Determinism under the iteration order of the hash maps *)

\* every analysis the usage query at hand yields over the orders in which
\* the package map and the root set may be visited
UsageOutcomes ==
    {classify_packages(packages, call.used_packages,
                       get_transitive_dependencies(DependencyGraph_new(packages, built), roots),
                       call.include_dev, ord) :
        built \in Orders(DOMAIN packages), roots \in Orders(call.used_packages),
        ord \in Orders(DOMAIN packages)}

\* every explanation the query at hand yields over the orders in which
\* DependencyGraph::new may visit the package map
ExplainOutcomes ==
    {explain_package(DependencyGraph_new(packages, built), packages, Target) :
        built \in Orders(DOMAIN packages)}

\* C12: a run that differs from the one at hand only in the iteration order of
\* the hash maps returns the same usage buckets in the same order, and the
\* same chains in the same order.
C12_SameOrderEveryRun ==
    /\ Analysed => UsageOutcomes = {Analysis}
    /\ Explained => ExplainOutcomes = {result.explanation}

----------------------------------------------------------------------------
(* Properties of the duplicate analysis *)

Duplicated == result.kind = "duplicates"

Groups == result.analysis.duplicates

Stats == result.analysis.stats

\* the versions of the [[package]] tables of the lockfile named name, in
\* file order
VersionsInLockfile(name) ==
    LET mine == SelectSeq(lockfile.package, LAMBDA pkg : pkg.name = name)
    IN  [i \in 1..Len(mine) |-> mine[i].version]

CrateNamesInLockfile == {lockfile.package[i].name : i \in 1..Len(lockfile.package)}

\* the majors of the versions of s that are semver
ParsedMajors(s) ==
    {Version_parse(s[i]).major : i \in {j \in 1..Len(s) : Version_parse(s[j]).ok}}

GroupVersions(g) == [i \in 1..Len(g.versions) |-> g.versions[i].version]

RepeatedTables ==
    {i \in 1..Len(lockfile.package) :
         \E j \in 1..Len(lockfile.package) :
             j # i /\ lockfile.package[j].name = lockfile.package[i].name}

\* C15: extra_compile_units is the sum over the groups of versions - 1,
\* total_duplicates the number of groups, and the three severity counts the
\* numbers of groups of each severity; every group has a version to subtract
\* from.
C15_StatsMatchGroups ==
    Duplicated =>
        /\ Stats.total_duplicates = Len(Groups)
        /\ \A sev \in {"High", "Medium", "Low"} :
               LET count == CASE sev = "High" -> Stats.high_severity
                              [] sev = "Medium" -> Stats.medium_severity
                              [] sev = "Low" -> Stats.low_severity
               IN  count = Cardinality({i \in 1..Len(Groups) : Groups[i].severity = sev})
        /\ Stats.high_severity + Stats.medium_severity + Stats.low_severity
               = Stats.total_duplicates
        /\ \A i \in 1..Len(Groups) : Len(Groups[i].versions) >= 1
        /\ Stats.extra_compile_units
               = Cardinality(RepeatedTables)
                 - Cardinality({lockfile.package[i].name : i \in RepeatedTables})

\* a group of three versions beside a group of two: three extra units
C15_Witness ==
    /\ Duplicated
    /\ Len(Groups) = 2
    /\ Len(Groups[1].versions) = 3
    /\ Len(Groups[2].versions) = 2
    /\ Stats.extra_compile_units = 3
    /\ Stats.high_severity = 1

\* C16: there is a group exactly for the names the lockfile gives two or
\* more differing versions, one group each, listing every version of the name.
C16_GroupsOfDifferingVersions ==
    Duplicated =>
        /\ {Groups[i].name : i \in 1..Len(Groups)}
               = {name \in CrateNamesInLockfile :
                      Cardinality(Range(VersionsInLockfile(name))) >= 2}
        /\ \A i, j \in 1..Len(Groups) : Groups[i].name = Groups[j].name => i = j
        /\ \A i \in 1..Len(Groups) :
               Range(GroupVersions(Groups[i])) = Range(VersionsInLockfile(Groups[i].name))

\* C17: the sort of the versions of a group never aborts, and in every group
\* no version is followed by one it compares greater than, semver order when
\* both are semver, byte order of the strings otherwise.
C17_VersionsAscending ==
    /\ result.kind # "panic"
    /\ Duplicated =>
           \A g \in 1..Len(Groups) :
               \A i, j \in 1..Len(Groups[g].versions) :
                   i < j => compare_versions(Groups[g].versions[i].version,
                                             Groups[g].versions[j].version) # "Greater"

\* C18: the groups come High first, then Medium, then Low, and by name
\* ascending within one severity.
C18_GroupsBySeverityThenName ==
    Duplicated =>
        \A i, j \in 1..Len(Groups) :
            i < j =>
                \/ SeverityRank(Groups[i].severity) > SeverityRank(Groups[j].severity)
                \/ /\ Groups[i].severity = Groups[j].severity
                   /\ NameLess(Groups[i].name, Groups[j].name)

\* a High group ahead of two groups of one severity whose names both come
\* before its own
C18_Witness ==
    /\ Duplicated
    /\ Len(Groups) = 3
    /\ Groups[1].severity = "High"
    /\ Groups[2].severity = Groups[3].severity
    /\ Groups[2].severity # "High"
    /\ NameLess(Groups[3].name, Groups[1].name)

----------------------------------------------------------------------------
(* Properties of calculate_transitive_dependents *)

Counted == result.kind = "count"

\* the dependents the map lists for the identifier id: those of the versions
\* whose name@version is id
ListedDependents(id) ==
    UNION {UNION {Range(packages[name][i].dependents) :
                      i \in {j \in DOMAIN packages[name] :
                                 FormatKey(name, packages[name][j].version) = id}} :
               name \in DOMAIN packages}

\* S and all that the dependents lists lead to from it
RECURSIVE DependentsClosure(_)
DependentsClosure(S) ==
    LET T == S \cup UNION {ListedDependents(id) : id \in S}
    IN  IF T = S THEN S ELSE DependentsClosure(T)

\* C14: the count of a key is the number of distinct identifiers reached from
\* it over one or more steps of the reverse map, each counted once; in the
\* map of the example the counts of C, B and A are 4, 3 and 1.
C14_CountsDistinctDependents ==
    Counted =>
        /\ result.count = Cardinality(DependentsClosure(ListedDependents(call.package_key)))
        /\ packages = TestPackages =>
               result.count = CASE call.package_key = "C@1.0.0" -> 4
                                [] call.package_key = "B@1.0.0" -> 3
                                [] OTHER -> 1

\* the example: root is reached from C over A and over D and counted once
C14_Witness ==
    /\ Counted
    /\ packages = TestPackages
    /\ call.package_key = "C@1.0.0"
    /\ result.count = 4

----------------------------------------------------------------------------
(* Properties of the graph as built *)

Built == phase \in {"built", "done"}

\* C19: the nodes of the graph are the keys of the package map, and an edge
\* leads from a to b exactly when b is listed in a's dependencies and is a
\* key; a dependency that is no key leaves neither an edge nor a node.
C19_EdgesOnlyBetweenNodes ==
    Built =>
        /\ graph.nodes = DOMAIN packages
        /\ DOMAIN graph.outgoing = graph.nodes
        /\ DOMAIN graph.incoming = graph.nodes
        /\ \A a \in graph.nodes :
               /\ Range(graph.outgoing[a])
                      = Range(packages[a].dependencies) \cap DOMAIN packages
               /\ Range(graph.incoming[a])
                      = {b \in DOMAIN packages : Contains(packages[b].dependencies, a)}

\* a package with one dependency that is a key and one that is none
C19_Witness ==
    /\ Built
    /\ \E a \in graph.nodes :
           /\ Range(packages[a].dependencies) \ DOMAIN packages # {}
           /\ Range(graph.outgoing[a]) # {}

\* the package names of the nodes, one entry per node
NodeNames == [key \in graph.nodes |-> packages[key].name]

\* C20: no two nodes of the graph stand for packages of one name, and
\* explain_package finds every package under its bare name.
C20_OneNodePerName ==
    /\ Built =>
           \A a, b \in graph.nodes : NodeNames[a] = NodeNames[b] => a = b
    /\ (Explained /\ \E key \in graph.nodes : NodeNames[key] = Target) =>
           result.explanation.is_some

----------------------------------------------------------------------------
(* Algebra of the closure *)

Closed == result.kind = "closure"

\* C21: the closure of the closure of a root set is the closure itself, in
\* whatever order the second call visits its roots.
C21_ClosureIdempotent ==
    Closed =>
        \A again \in Orders(result.visited) :
            get_transitive_dependencies(graph, again) = result.visited

\* a closure that holds a package two steps away from its only root
C21_Witness ==
    /\ Closed
    /\ Cardinality(call.roots) = 1
    /\ \E r \in call.roots, a, b \in result.visited :
           /\ b \notin call.roots
           /\ DependsOn(r, a)
           /\ DependsOn(a, b)
           /\ ~DependsOn(r, b)

\* C22: the closure of a part of a root set is a part of the closure of the
\* whole set.
C22_ClosureMonotone ==
    Closed =>
        \A S1 \in SUBSET call.roots :
            \A order \in Orders(S1) :
                get_transitive_dependencies(graph, order) \subseteq result.visited

\* two roots, neither reached from the other, one of them with a dependency
C22_Witness ==
    /\ Closed
    /\ \E r1, r2 \in call.roots \cap DOMAIN packages :
           /\ r1 # r2
           /\ r2 \notin ReachableFrom({r1})
           /\ r1 \notin ReachableFrom({r2})
           /\ ReachableFrom({r1}) # {r1}
           /\ ReachableFrom({r1}) \subseteq result.visited
           /\ r2 \in result.visited

----------------------------------------------------------------------------
(* The used bucket: the presence flag and the closure under dependency *)

\* C23: import_count is 1 for an entry whose name is in the used root set
\* and 0 for an entry that is in the bucket by the closure only; it takes no
\* other value.
C23_ImportCountIsPresenceFlag ==
    Analysed =>
        \A i \in 1..Len(Analysis.used) :
            LET entry == Analysis.used[i]
            IN  /\ entry.import_count \in {0, 1}
                /\ entry.import_count = 1 <=> entry.package.name \in call.used_packages
                /\ entry.import_count = 0 =>
                       entry.package.name
                           \in ReachableFrom(call.used_packages \cap DOMAIN packages)

\* an imported package and a dependency of it that is not imported itself
C23_Witness ==
    /\ Analysed
    /\ \E i, j \in 1..Len(Analysis.used) :
           /\ Analysis.used[i].import_count = 1
           /\ Analysis.used[j].import_count = 0
           /\ DependsOn(Analysis.used[i].package.name, Analysis.used[j].package.name)

\* C30: with the dev packages included, every dependency of a package in
\* used is in used; with them left out, every dependency that is no dev
\* package is.
C30_UsedClosedUnderDependency ==
    Analysed =>
        \A p \in UsedNames, q \in DOMAIN packages :
            (DependsOn(p, q) /\ (call.include_dev \/ ~packages[q].is_dev))
                => q \in UsedNames

\* dev packages left out: a used package with a dependency that is not
\* imported and is in used, in a project that has a dev package
C30_Witness ==
    /\ Analysed
    /\ ~call.include_dev
    /\ \E k \in DOMAIN packages : packages[k].is_dev
    /\ \E p, q \in UsedNames :
           /\ p # q
           /\ DependsOn(p, q)
           /\ q \notin call.used_packages

----------------------------------------------------------------------------
(* The chains explain_package chooses *)

\* every chain that ends in path: path itself grown at its front over
\* dependants that are not in it, up to and including the first direct one
RECURSIVE ChainsThrough(_)
ChainsThrough(path) ==
    LET dependants == {a \in DOMAIN packages :
                           DependsOn(a, Head(path)) /\ ~Contains(path, a)}
    IN  {<<a>> \o path : a \in {d \in dependants : packages[d].is_direct}}
        \cup UNION {ChainsThrough(<<a>> \o path) :
                        a \in {d \in dependants : ~packages[d].is_direct}}

\* the acyclic chains from a direct package to the target that hold no other
\* direct package
AllChains == ChainsThrough(<<Target>>)

\* C24: every returned chain is such a chain, no chain left out is shorter
\* than a returned one, and none is left out when there are at most 5.
C24_ShortestChains ==
    ExplainedNonDirect =>
        /\ Range(Chains) \subseteq AllChains
        /\ \A c \in AllChains \ Range(Chains) :
               \A i \in 1..Len(Chains) : Len(c) >= Len(Chains[i])
        /\ Cardinality(AllChains) <= ChainLimit => Range(Chains) = AllChains

\* more than 5 chains of two lengths: every chain of the shorter length is
\* returned and one of the longer is left out
C24_Witness ==
    /\ ExplainedNonDirect
    /\ Cardinality(AllChains) > ChainLimit
    /\ \E c \in AllChains \ Range(Chains) :
           /\ Len(c) = 3
           /\ \E i \in 1..Len(Chains) : Len(Chains[i]) = 3
    /\ {c \in AllChains : Len(c) = 2} # {}
    /\ {c \in AllChains : Len(c) = 2} \subseteq Range(Chains)

----------------------------------------------------------------------------
(* The search behind the chains *)

\* the paths the search of the target at hand puts on its queue
PushedPaths == ChainSearch(graph, packages, Target).pushed

\* C28: in every chain of a target that is not direct the first package is
\* the only direct one, and no path that starts with a direct package is
\* put on the queue.
C28_FinalizedAtFirstDirect ==
    ExplainedNonDirect =>
        /\ \A i \in 1..Len(Chains) :
               \A j \in 1..Len(Chains[i]) :
                   packages[Chains[i][j]].is_direct <=> j = 1
        /\ \A i \in 1..Len(PushedPaths) : ~packages[Head(PushedPaths[i])].is_direct

\* a direct package that a direct package depends on: the chain ends at the
\* nearer one and the farther one is in no chain
C28_Witness ==
    /\ ExplainedNonDirect
    /\ \E near, far \in DOMAIN packages :
           /\ near # far
           /\ packages[near].is_direct
           /\ packages[far].is_direct
           /\ DependsOn(far, near)
           /\ DependsOn(near, Target)
           /\ ~DependsOn(far, Target)
           /\ Chains = << <<near, Target>> >>

\* C29: no two of the returned chains are the same sequence of names.
C29_ChainsDistinct ==
    (Explained /\ result.explanation.is_some) => NoRepeat(Chains)

\* a direct package that lists the target twice, explained by one chain
C29_Witness ==
    /\ ExplainedNonDirect
    /\ \E d \in DOMAIN packages :
           /\ Cardinality({i \in 1..Len(packages[d].dependencies) :
                               packages[d].dependencies[i] = Target}) >= 2
           /\ Chains = << <<d, Target>> >>

----------------------------------------------------------------------------
(* The queues of the traversals *)

\* the runs of the closure at hand, one for every order in which
\* `for name in roots` may visit the root set
ClosureRuns == {TransitiveRun(graph, order) : order \in Orders(call.roots)}

\* C25: no node is put on the queue of the closure twice.
C25_EnqueuedAtMostOnce ==
    Closed => \A run \in ClosureRuns : NoRepeat(run.pushes)

\* the identifiers of the reverse map: its keys and the dependents it lists
DependentIds ==
    UNION {UNION {{FormatKey(name, packages[name][i].version)}
                      \cup Range(packages[name][i].dependents) :
                      i \in DOMAIN packages[name]} :
               name \in DOMAIN packages}

\* C26: both traversals come to an end, the closure after no more enqueues
\* than the graph has nodes, the count of the dependents after no more than
\* there are identifiers.
C26_EnqueuesBoundedByNodes ==
    /\ Closed =>
           \A run \in ClosureRuns : Len(run.pushes) <= Cardinality(graph.nodes)
    /\ Counted => result.count <= Cardinality(DependentIds)

----------------------------------------------------------------------------
(* The dependents of dependents, read off the lockfile *)

Tables == Range(lockfile.package)

\* the dependency string d names the table t: by name and version, or by
\* name alone
Refers(d, t) ==
    LET parts == split_whitespace(d)
    IN  /\ parts[1] = t.name
        /\ Len(parts) >= 2 => parts[2] = t.version

\* the tables that list the key as a dependency
TablesListing(key) ==
    {y \in Tables : \E i \in 1..Len(y.dependencies) : DepKey(y.dependencies[i]) = key}

\* the tables of another name that list one of the tables of ys
TablesAbove(ys) ==
    {x \in Tables :
         \E y \in ys : /\ x.name # y.name
                       /\ \E i \in 1..Len(x.dependencies) : Refers(x.dependencies[i], y)}

\* C27: the transitive_count of a version counts the crates that list it and
\* the crates that list one of those: it is no less than the number of their
\* names.
C27_CountsDependentsOfDependents ==
    Duplicated =>
        \A g \in 1..Len(Groups) :
            \A i \in 1..Len(Groups[g].versions) :
                LET key    == FormatKey(Groups[g].name, Groups[g].versions[i].version)
                    direct == TablesListing(key)
                IN  Groups[g].versions[i].transitive_count
                        >= Cardinality({t.name : t \in direct \cup TablesAbove(direct)})

====
